---- MODULE Spec2Model ----
(***************************************************************************)
(* Live Transfers Exchange API (src/main.py, src/schemas.py).              *)
(*                                                                         *)
(* The state is the document store: one sequence of documents per          *)
(* collection, in insertion order, plus the response to the last request.  *)
(* Notification documents carry no field that a handler reads back (not    *)
(* even their _id), so that collection is kept as a bag of documents.      *)
(* Each HTTP handler is one action; a handler runs to completion before    *)
(* the next request is taken.                                              *)
(*                                                                         *)
(* Money is counted in mills (1/1000 of a dollar) so that the rounding to  *)
(* two decimals done by get_balance is not the identity.  Pass-through     *)
(* fields that no handler reads (name, company, phone, daily_cap, states,  *)
(* time_start, time_end, did_number of a call, caller, called,             *)
(* recording_url, memo) are left out of the documents.                     *)
(***************************************************************************)
EXTENDS Integers, Sequences, FiniteSets, Bags, TLC

VARIABLES user, wallettransaction, campaign, selleracceptance,
          routingassignment, callrecord, notification, resp, inflight

db == <<user, wallettransaction, campaign, selleracceptance,
        routingassignment, callrecord, notification>>
vars == <<user, wallettransaction, campaign, selleracceptance,
          routingassignment, callrecord, notification, resp, inflight>>

(* ------------------------------ bounds -------------------------------- *)
MaxUsers == 2
MaxLedger == 2
MaxCampaigns == 1
MaxAcceptances == 2
MaxRoutings == 2
MaxCalls == 1
MaxNotifications == 4
MaxSellerIds == 1
\* log_call requests served at the same time
MaxInFlight == 2

(* ------------------------- program constants -------------------------- *)
MinTopUp == 50000
MinPrice == 35000
LowBalance == 50000
FloorThreshold == 60
DefaultThreshold == 90

NULL == "None"
BadId == "not-an-object-id"
AdminInbox == "admin"

Roles == {"buyer", "seller", "admin"}
Statuses == {"draft", "pending_acceptance", "awaiting_admin", "active",
             "paused", "depleted", "archived"}
AcceptStatuses == {"accepted", "rejected"}

(* ----------------------------- helpers -------------------------------- *)
RECURSIVE SeqsUpTo(_, _)
SeqsUpTo(S, n) ==
    IF n = 0 THEN {<<>>}
    ELSE LET shorter == SeqsUpTo(S, n - 1)
         IN  shorter \cup {Append(s, x) : s \in shorter, x \in S}

\* str(inserted_id): the k-th document of a collection gets a fresh id
NewId(prefix, coll) == prefix \o ToString(Len(coll) + 1)

\* oid(): ObjectId(id_str) raises on a malformed string
oid_ok(id_str) == id_str # BadId

\* db[coll].find_one({"_id": oid(id)}): index of the document, 0 when absent
RECURSIVE IndexWhere(_, _, _)
IndexWhere(coll, Test(_), i) ==
    IF i > Len(coll) THEN 0
    ELSE IF Test(coll[i]) THEN i
    ELSE IndexWhere(coll, Test, i + 1)

find_by_id(coll, id) ==
    LET Test(d) == d._id = id IN IndexWhere(coll, Test, 1)

\* round(x, 2) on an amount in mills: nearest cent, ties to the even cent
Round2(x) ==
    LET q == x \div 10
        r == x % 10
    IN  IF r < 5 THEN q * 10
        ELSE IF r > 5 THEN (q + 1) * 10
        ELSE IF q % 2 = 0 THEN q * 10 ELSE (q + 1) * 10

\* mutant: the user filter of the find() is dropped
RECURSIVE SumBalance_AnyUser(_, _, _)
SumBalance_AnyUser(txs, user_id, i) ==
    IF i > Len(txs) THEN 0
    ELSE LET t == txs[i]
             rest == SumBalance_AnyUser(txs, user_id, i + 1)
         IN  IF t.type = "credit" THEN rest + t.amount ELSE rest - t.amount

RECURSIVE SumBalance(_, _, _)
SumBalance(txs, user_id, i) ==
    IF i > Len(txs) THEN 0
    ELSE LET t == txs[i]
             rest == SumBalance(txs, user_id, i + 1)
         IN  IF t.user_id # user_id THEN rest
             ELSE IF t.type = "credit" THEN rest + t.amount
             ELSE rest - t.amount

get_balance(txs, user_id) == Round2(SumBalance(txs, user_id, 1))

(* ------------------------------ inputs -------------------------------- *)
UserIdInputs == {"u" \o ToString(i) : i \in 1..MaxUsers} \cup {BadId}
CampaignIdInputs == {"c" \o ToString(i) : i \in 1..MaxCampaigns} \cup {BadId}
BodyCampaignIds == {"c" \o ToString(i) : i \in 1..(MaxCampaigns + 1)}
\* POST /users bodies: two bodies share an email
UserInputs == {[email |-> "a@x.io", role |-> "buyer"],
               [email |-> "b@x.io", role |-> "seller"],
               [email |-> "b@x.io", role |-> "admin"]}
\* amounts in mills: $49.99, $85.004
TopUpAmounts == {49990, 85004}
\* prices in mills: $34.99, $35.00
PriceInputs == {34990, 35000}
\* <<duration_seconds, threshold>> of a logged call
CallInputs == {<<0, DefaultThreshold>>, <<45, 30>>, <<60, 30>>,
               <<60, DefaultThreshold>>, <<90, DefaultThreshold>>}
SellerIdLists == SeqsUpTo({"u" \o ToString(i) : i \in 1..MaxUsers}, MaxSellerIds)

\* request bodies
TopUpInputs == [user_id : UserIdInputs, amount : TopUpAmounts]
\* every status with a valid price; the default status with every price
CampaignInputs ==
    [buyer_id : UserIdInputs, vertical : {"Solar"}, price_per_call : PriceInputs,
     transfer_number : {NULL}, status : {"pending_acceptance"}]
    \cup
    [buyer_id : UserIdInputs \ {BadId}, vertical : {"Solar"},
     price_per_call : {p \in PriceInputs : p >= MinPrice},
     transfer_number : {NULL}, status : Statuses]
AcceptInputs == [seller_id : UserIdInputs, status : AcceptStatuses]
TransferInputs == [transfer_number : {"+15550100"}]
RoutingInputs == [campaign_id : BodyCampaignIds, seller_ids : SellerIdLists,
                  did_number : {"+15550199"}]
CallLogInputs ==
    {[campaign_id |-> c, seller_id |-> NULL, duration_seconds |-> dt[1],
      threshold |-> dt[2]] : c \in CampaignIdInputs, dt \in CallInputs}

(* ------------------------------ documents ----------------------------- *)
Notification(user_id, message) ==
    [user_id |-> user_id, message |-> message, read |-> FALSE]

\* mutant: the notification is not stored
notify_Lost(coll, user_id, message) == coll

\* create_document("notification", ...)
notify(coll, user_id, message) ==
    coll (+) SetToBag({Notification(user_id, message)})

Reject(op, code, detail) ==
    /\ resp' = [op |-> op, code |-> code, detail |-> detail]
    /\ UNCHANGED db

(* ------------------------------ Users --------------------------------- *)
create_user(u) ==
    IF \E i \in 1..Len(user) : user[i].email = u.email
       THEN Reject("create_user", 400, "Email already registered")
       ELSE /\ Len(user) < MaxUsers
            /\ BagCardinality(notification) < MaxNotifications
            /\ LET user_id == NewId("u", user)
               IN  /\ user' = Append(user, [_id |-> user_id, email |-> u.email,
                                            role |-> u.role, is_active |-> TRUE])
                   /\ notification' = notify(notification, user_id,
                                             "Welcome to Live Transfers Exchange")
                   /\ resp' = [op |-> "create_user", code |-> 200, id |-> user_id]
            /\ UNCHANGED <<wallettransaction, campaign, selleracceptance,
                           routingassignment, callrecord>>

(* ------------------------------ Wallet -------------------------------- *)
\* mutant: the campaign and call references of an entry are not stored
WalletTransaction_Untagged(_id, user_id, type, amount, campaign_id, call_id) ==
    [_id |-> _id, user_id |-> user_id, type |-> type, amount |-> amount,
     campaign_id |-> NULL, call_id |-> NULL]

WalletTransaction(_id, user_id, type, amount, campaign_id, call_id) ==
    [_id |-> _id, user_id |-> user_id, type |-> type, amount |-> amount,
     campaign_id |-> campaign_id, call_id |-> call_id]

\* mutant: only the ledger's own rule, amount > 0, is enforced
topup_too_small_Positive(amount) == amount <= 0

\* if payload.amount < 50
topup_too_small(amount) == amount < MinTopUp

\* mutant: a running credit entry per user is updated in place
credit_ledger_Upsert(txs, tx) ==
    LET Test(d) == d.user_id = tx.user_id /\ d.type = "credit"
        i == IndexWhere(txs, Test, 1)
    IN  IF i = 0 THEN Append(txs, tx)
        ELSE [txs EXCEPT ![i].amount = @ + tx.amount]

\* create_document("wallettransaction", tx) of wallet_topup
credit_ledger(txs, tx) == Append(txs, tx)

wallet_topup(payload) ==
    IF topup_too_small(payload.amount)
       THEN Reject("wallet_topup", 400, "Minimum top-up is $50")
       ELSE IF ~oid_ok(payload.user_id)
       THEN Reject("wallet_topup", 400, "Invalid id")
       ELSE IF find_by_id(user, payload.user_id) = 0
       THEN Reject("wallet_topup", 404, "User not found")
       ELSE /\ Len(wallettransaction) < MaxLedger
            /\ LET tx_id == NewId("t", wallettransaction)
                   txs == credit_ledger(wallettransaction,
                                 WalletTransaction(tx_id, payload.user_id, "credit",
                                                   payload.amount, NULL, NULL))
               IN  /\ wallettransaction' = txs
                   /\ resp' = [op |-> "wallet_topup", code |-> 200, id |-> tx_id,
                               balance |-> get_balance(txs, payload.user_id)]
            /\ UNCHANGED <<user, campaign, selleracceptance, routingassignment,
                           callrecord, notification>>

(* ----------------------------- Campaigns ------------------------------ *)
\* schemas.Campaign: what the request body must satisfy to reach the handler
Campaign_valid(c) ==
    /\ c.price_per_call >= MinPrice
    /\ c.status \in Statuses

\* mutant: the role of the user is not checked
valid_buyer_AnyRole(buyer_id) == find_by_id(user, buyer_id) # 0

\* the buyer check of create_campaign
valid_buyer(buyer_id) ==
    LET i == find_by_id(user, buyer_id)
    IN  i # 0 /\ user[i].role = "buyer"

\* db["user"].find({"role": "seller"}), in store order
RECURSIVE notify_sellers(_, _, _)
notify_sellers(notes, message, i) ==
    IF i > Len(user) THEN notes
    ELSE IF user[i].role = "seller"
    THEN notify_sellers(notify(notes, user[i]._id, message), message, i + 1)
    ELSE notify_sellers(notes, message, i + 1)

\* the status the stored campaign document carries
stored_status(c) == c.status

create_campaign(c) ==
    IF ~Campaign_valid(c)
       THEN Reject("create_campaign", 422, "validation error")
       ELSE IF ~oid_ok(c.buyer_id)
       THEN Reject("create_campaign", 400, "Invalid id")
       ELSE IF ~valid_buyer(c.buyer_id)
       THEN Reject("create_campaign", 400, "Invalid buyer")
       ELSE IF c.price_per_call < MinPrice
       THEN Reject("create_campaign", 400, "Minimum price per call is $35")
       ELSE LET camp_id == NewId("c", campaign)
                notes == notify_sellers(notification,
                                        "New campaign available: " \o c.vertical, 1)
            IN  /\ Len(campaign) < MaxCampaigns
                /\ BagCardinality(notes) <= MaxNotifications
                /\ campaign' = Append(campaign,
                       [_id |-> camp_id, buyer_id |-> c.buyer_id,
                        vertical |-> c.vertical,
                        price_per_call |-> c.price_per_call,
                        transfer_number |-> c.transfer_number,
                        status |-> stored_status(c)])
                /\ notification' = notes
                /\ resp' = [op |-> "create_campaign", code |-> 200, id |-> camp_id]
                /\ UNCHANGED <<user, wallettransaction, selleracceptance,
                               routingassignment, callrecord>>

\* mutant: the acceptance is always inserted
existing_acceptance_None(campaign_id, seller_id) == 0

\* the existing acceptance accept_campaign overwrites: 0 when there is none
existing_acceptance(campaign_id, seller_id) ==
    LET Test(d) == d.campaign_id = campaign_id /\ d.seller_id = seller_id
    IN  IndexWhere(selleracceptance, Test, 1)

\* mutant: the role of the accepting user is not checked
valid_seller_AnyRole(seller_id) == find_by_id(user, seller_id) # 0

\* the seller check of accept_campaign
valid_seller(seller_id) ==
    LET i == find_by_id(user, seller_id)
    IN  i # 0 /\ user[i].role = "seller"

\* mutant: an acceptance advances the campaign to awaiting_admin
campaign_on_accept_Advances(camps, i, status) ==
    IF status = "accepted" THEN [camps EXCEPT ![i].status = "awaiting_admin"]
    ELSE camps

\* accept_campaign reads the campaign and issues no update on db["campaign"]
campaign_on_accept(camps, i, status) == camps

accept_campaign(campaign_id, payload) ==
    IF ~oid_ok(campaign_id)
       THEN Reject("accept_campaign", 400, "Invalid id")
       ELSE IF find_by_id(campaign, campaign_id) = 0
       THEN Reject("accept_campaign", 404, "Campaign not found")
       ELSE IF ~oid_ok(payload.seller_id)
       THEN Reject("accept_campaign", 400, "Invalid id")
       ELSE IF ~valid_seller(payload.seller_id)
       THEN Reject("accept_campaign", 400, "Invalid seller")
       ELSE LET camp == campaign[find_by_id(campaign, campaign_id)]
                existing == existing_acceptance(campaign_id, payload.seller_id)
            IN  /\ BagCardinality(notification) < MaxNotifications
                /\ IF existing # 0
                   THEN selleracceptance' =
                            [selleracceptance EXCEPT ![existing].status = payload.status]
                   ELSE /\ Len(selleracceptance) < MaxAcceptances
                        /\ selleracceptance' = Append(selleracceptance,
                               [_id |-> NewId("a", selleracceptance),
                                campaign_id |-> campaign_id,
                                seller_id |-> payload.seller_id,
                                status |-> payload.status])
                /\ notification' = notify(notification, camp.buyer_id,
                                          "A seller responded to your campaign.")
                /\ campaign' = campaign_on_accept(campaign,
                                      find_by_id(campaign, campaign_id),
                                      payload.status)
                /\ resp' = [op |-> "accept_campaign", code |-> 200, ok |-> TRUE]
                /\ UNCHANGED <<user, wallettransaction,
                               routingassignment, callrecord>>

set_transfer_number(campaign_id, payload) ==
    IF ~oid_ok(campaign_id)
       THEN Reject("set_transfer_number", 400, "Invalid id")
       ELSE IF find_by_id(campaign, campaign_id) = 0
       THEN Reject("set_transfer_number", 404, "Campaign not found")
       ELSE LET i == find_by_id(campaign, campaign_id)
            IN  /\ BagCardinality(notification) < MaxNotifications
                /\ campaign' = [campaign EXCEPT
                                  ![i].transfer_number = payload.transfer_number,
                                  ![i].status = "awaiting_admin"]
                /\ notification' = notify(notification, AdminInbox,
                       "Campaign " \o campaign_id \o " ready for routing")
                /\ resp' = [op |-> "set_transfer_number", code |-> 200, ok |-> TRUE]
                /\ UNCHANGED <<user, wallettransaction, selleracceptance,
                               routingassignment, callrecord>>

\* the existing routing assign_routing overwrites: 0 when there is none
existing_routing(campaign_id) ==
    LET Test(d) == d.campaign_id = campaign_id
    IN  IndexWhere(routingassignment, Test, 1)

\* mutant: a balance of exactly $50 does not activate
routing_status_Strict(bal) == IF bal > LowBalance THEN "active" ELSE "depleted"

\* "active" if bal >= 50 else "depleted"
routing_status(bal) == IF bal >= LowBalance THEN "active" ELSE "depleted"

RECURSIVE notify_each(_, _, _, _)
notify_each(notes, ids, message, i) ==
    IF i > Len(ids) THEN notes
    ELSE notify_each(notify(notes, ids[i], message), ids, message, i + 1)

assign_routing(campaign_id, routing) ==
    IF ~oid_ok(campaign_id)
       THEN Reject("assign_routing", 400, "Invalid id")
       ELSE IF find_by_id(campaign, campaign_id) = 0
       THEN Reject("assign_routing", 404, "Campaign not found")
       ELSE LET i == find_by_id(campaign, campaign_id)
                camp == campaign[i]
                existing == existing_routing(campaign_id)
                buyer_id == camp.buyer_id
                bal == get_balance(wallettransaction, buyer_id)
                new_status == routing_status(bal)
            IN  /\ BagCardinality(notification) + 1 + Len(routing.seller_ids) <= MaxNotifications
                /\ IF existing # 0
                   THEN routingassignment' =
                            [routingassignment EXCEPT
                               ![existing].campaign_id = routing.campaign_id,
                               ![existing].seller_ids = routing.seller_ids,
                               ![existing].did_number = routing.did_number]
                   ELSE /\ Len(routingassignment) < MaxRoutings
                        /\ routingassignment' = Append(routingassignment,
                               [_id |-> NewId("r", routingassignment),
                                campaign_id |-> routing.campaign_id,
                                seller_ids |-> routing.seller_ids,
                                did_number |-> routing.did_number])
                /\ campaign' = [campaign EXCEPT ![i].status = new_status]
                /\ notification' =
                       notify_each(notify(notification, buyer_id,
                                          "Your campaign routing is configured."),
                                   routing.seller_ids,
                                   "You have been assigned to a campaign.", 1)
                /\ resp' = [op |-> "assign_routing", code |-> 200, ok |-> TRUE, status |-> new_status]
                /\ UNCHANGED <<user, wallettransaction, selleracceptance, callrecord>>

(* -------------------------- Calls & Billing --------------------------- *)
\* mutant: the smaller of the two is taken
Max_Smaller(a, b) == IF a >= b THEN b ELSE a

Max(a, b) == IF a >= b THEN a ELSE b

\* mutant: the 60-second floor is dropped
is_billable_NoFloor(duration_seconds, threshold) == duration_seconds >= threshold

is_billable(duration_seconds, threshold) ==
    duration_seconds >= Max(FloorThreshold, threshold)

call_disposition(billable, duration_seconds) ==
    IF billable THEN "completed"
    ELSE IF duration_seconds > 0 THEN "short" ELSE "failed"

\* mutant: a balance of exactly $50 depletes
balance_low_Inclusive(bal) == bal <= LowBalance

\* bal < 50 after the debit
balance_low(bal) == bal < LowBalance

log_call(payload) ==
    IF ~oid_ok(payload.campaign_id)
       THEN Reject("log_call", 400, "Invalid id")
       ELSE IF find_by_id(campaign, payload.campaign_id) = 0
       THEN Reject("log_call", 404, "Campaign not found")
       ELSE LET i == find_by_id(campaign, payload.campaign_id)
                camp == campaign[i]
                buyer_id == camp.buyer_id
                billable == is_billable(payload.duration_seconds, payload.threshold)
                call_id == NewId("k", callrecord)
                price == camp.price_per_call
                txs == Append(wallettransaction,
                              WalletTransaction(NewId("t", wallettransaction),
                                                buyer_id, "debit", price,
                                                payload.campaign_id, call_id))
                bal == get_balance(txs, buyer_id)
            IN  /\ Len(callrecord) < MaxCalls
                /\ callrecord' = Append(callrecord,
                       [_id |-> call_id, campaign_id |-> payload.campaign_id,
                        buyer_id |-> buyer_id, seller_id |-> payload.seller_id,
                        duration_seconds |-> payload.duration_seconds,
                        billable_threshold |-> payload.threshold,
                        billable |-> billable,
                        disposition |-> call_disposition(billable,
                                                         payload.duration_seconds)])
                /\ IF billable
                   THEN /\ Len(wallettransaction) < MaxLedger
                        /\ wallettransaction' = txs
                        /\ IF balance_low(bal)
                           THEN /\ BagCardinality(notification) < MaxNotifications
                                /\ campaign' = [campaign EXCEPT ![i].status = "depleted"]
                                /\ notification' = notify(notification, buyer_id,
                                       "Balance low: campaign paused. Please add funds.")
                           ELSE UNCHANGED <<campaign, notification>>
                   ELSE UNCHANGED <<wallettransaction, campaign, notification>>
                /\ resp' = [op |-> "log_call", code |-> 200, id |-> call_id, billable |-> billable]
                /\ UNCHANGED <<user, selleracceptance, routingassignment>>

(* ---------------- log_call, one store operation at a time ------------- *)
Procs == 1..MaxInFlight

\* the calls logged together: one short, one billable, on every campaign id
ConcurrentCallInputs ==
    {p \in CallLogInputs :
        <<p.duration_seconds, p.threshold>> \in {<<45, 30>>, <<90, DefaultThreshold>>}}

\* a request that has not arrived: the locals of log_call before its first line
IdleCall ==
    [pc |-> "idle", campaign_id |-> NULL, duration_seconds |-> 0, threshold |-> 0,
     camp_id |-> NULL, buyer_id |-> NULL, price |-> 0, billable |-> FALSE,
     call_id |-> NULL, bal |-> 0, code |-> 0]

Quiet == \A p \in Procs : inflight[p].pc = "idle"

\* mutant: the balance is kept per request: what was credited, less the
\* request's own debit
ledger_read_PerRequest(txs, p) ==
    LET Test(t) == t.call_id \in {NULL, inflight[p].call_id}
    IN  SelectSeq(txs, Test)

\* get_balance queries the ledger when it is called
ledger_read(txs, p) == txs

\* camp = db["campaign"].find_one(...); billable = ...
lc_find_campaign(p, payload) ==
    /\ inflight[p].pc = "idle"
    /\ \A q \in 1..(p - 1) : inflight[q].pc # "idle"
    /\ LET i == IF oid_ok(payload.campaign_id)
                THEN find_by_id(campaign, payload.campaign_id) ELSE 0
       IN  inflight' = [inflight EXCEPT ![p] =
             IF ~oid_ok(payload.campaign_id)
             THEN [@ EXCEPT !.pc = "done", !.code = 400,
                            !.campaign_id = payload.campaign_id]
             ELSE IF i = 0
             THEN [@ EXCEPT !.pc = "done", !.code = 404,
                            !.campaign_id = payload.campaign_id]
             ELSE [@ EXCEPT !.pc = "insert_call",
                            !.campaign_id = payload.campaign_id,
                            !.duration_seconds = payload.duration_seconds,
                            !.threshold = payload.threshold,
                            !.camp_id = campaign[i]._id,
                            !.buyer_id = campaign[i].buyer_id,
                            !.price = campaign[i].price_per_call,
                            !.billable = is_billable(payload.duration_seconds,
                                                     payload.threshold)]]
    /\ UNCHANGED <<db, resp>>

\* call_id = create_document("callrecord", record)
lc_insert_call(p) ==
    LET me == inflight[p]
        call_id == NewId("k", callrecord)
    IN  /\ me.pc = "insert_call"
        /\ callrecord' = Append(callrecord,
               [_id |-> call_id, campaign_id |-> me.campaign_id,
                buyer_id |-> me.buyer_id, seller_id |-> NULL,
                duration_seconds |-> me.duration_seconds,
                billable_threshold |-> me.threshold,
                billable |-> me.billable,
                disposition |-> call_disposition(me.billable, me.duration_seconds)])
        /\ inflight' = [inflight EXCEPT ![p] =
               IF me.billable
               THEN [@ EXCEPT !.pc = "append_debit", !.call_id = call_id]
               ELSE [@ EXCEPT !.pc = "done", !.call_id = call_id, !.code = 200]]
        /\ UNCHANGED <<user, wallettransaction, campaign, selleracceptance,
                       routingassignment, notification, resp>>

\* create_document("wallettransaction", tx)
lc_append_debit(p) ==
    LET me == inflight[p]
    IN  /\ me.pc = "append_debit"
        /\ wallettransaction' = Append(wallettransaction,
               WalletTransaction(NewId("t", wallettransaction), me.buyer_id,
                                 "debit", me.price, me.campaign_id, me.call_id))
        /\ inflight' = [inflight EXCEPT ![p].pc = "read_balance"]
        /\ UNCHANGED <<user, campaign, selleracceptance, routingassignment,
                       callrecord, notification, resp>>

\* bal = get_balance(buyer_id); if bal < 50
lc_read_balance(p) ==
    LET me == inflight[p]
        bal == get_balance(ledger_read(wallettransaction, p), me.buyer_id)
    IN  /\ me.pc = "read_balance"
        /\ inflight' = [inflight EXCEPT ![p] =
               IF balance_low(bal)
               THEN [@ EXCEPT !.pc = "update_status", !.bal = bal]
               ELSE [@ EXCEPT !.pc = "done", !.bal = bal, !.code = 200]]
        /\ UNCHANGED <<db, resp>>

\* db["campaign"].update_one({"_id": camp["_id"]}, {"$set": {"status": "depleted"}})
lc_update_status(p) ==
    LET me == inflight[p]
    IN  /\ me.pc = "update_status"
        /\ campaign' = [i \in 1..Len(campaign) |->
                          IF campaign[i]._id = me.camp_id
                          THEN [campaign[i] EXCEPT !.status = "depleted"]
                          ELSE campaign[i]]
        /\ inflight' = [inflight EXCEPT ![p].pc = "notify"]
        /\ UNCHANGED <<user, wallettransaction, selleracceptance,
                       routingassignment, callrecord, notification, resp>>

\* create_document("notification", ...); return
lc_notify(p) ==
    LET me == inflight[p]
    IN  /\ me.pc = "notify"
        /\ notification' = notify(notification, me.buyer_id,
               "Balance low: campaign paused. Please add funds.")
        /\ inflight' = [inflight EXCEPT ![p] = [@ EXCEPT !.pc = "done", !.code = 200]]
        /\ UNCHANGED <<user, wallettransaction, campaign, selleracceptance,
                       routingassignment, callrecord, resp>>

(* --------------------------- specification ---------------------------- *)
Init ==
    /\ user = <<>>
    /\ wallettransaction = <<>>
    /\ campaign = <<>>
    /\ selleracceptance = <<>>
    /\ routingassignment = <<>>
    /\ callrecord = <<>>
    /\ notification = EmptyBag
    /\ resp = [op |-> "none", code |-> 0]
    /\ inflight = [p \in Procs |-> IdleCall]

\* one request at a time, each handler from its first to its last line
Next ==
    \/ \E u \in UserInputs : create_user(u) /\ UNCHANGED inflight
    \/ \E p \in TopUpInputs : wallet_topup(p) /\ UNCHANGED inflight
    \/ \E c \in CampaignInputs : create_campaign(c) /\ UNCHANGED inflight
    \/ \E c \in CampaignIdInputs, p \in AcceptInputs :
          accept_campaign(c, p) /\ UNCHANGED inflight
    \/ \E c \in CampaignIdInputs, p \in TransferInputs :
          set_transfer_number(c, p) /\ UNCHANGED inflight
    \/ \E c \in CampaignIdInputs, r \in RoutingInputs :
          assign_routing(c, r) /\ UNCHANGED inflight
    \/ \E p \in CallLogInputs : log_call(p) /\ UNCHANGED inflight

Spec == Init /\ [][Next]_vars

\* the store is filled by requests served one at a time; then up to
\* MaxInFlight log_call requests are served together, one store operation at
\* a time, and no other request runs from the moment the first of them starts
NextConcurrent ==
    \/ Quiet /\ \E u \in UserInputs : create_user(u) /\ UNCHANGED inflight
    \/ Quiet /\ \E p \in TopUpInputs : wallet_topup(p) /\ UNCHANGED inflight
    \/ Quiet /\ \E c \in CampaignInputs : create_campaign(c) /\ UNCHANGED inflight
    \/ Quiet /\ \E c \in CampaignIdInputs, r \in RoutingInputs :
                   assign_routing(c, r) /\ UNCHANGED inflight
    \/ \E p \in Procs, payload \in ConcurrentCallInputs : lc_find_campaign(p, payload)
    \/ \E p \in Procs : lc_insert_call(p)
    \/ \E p \in Procs : lc_append_debit(p)
    \/ \E p \in Procs : lc_read_balance(p)
    \/ \E p \in Procs : lc_update_status(p)
    \/ \E p \in Procs : lc_notify(p)

SpecConcurrent == Init /\ [][NextConcurrent]_vars

(* ======================================================================= *)
(*                               Claims                                    *)
(* ======================================================================= *)
RECURSIVE SumOver(_, _)
SumOver(txs, I) ==
    IF I = {} THEN 0
    ELSE LET i == CHOOSE j \in I : TRUE
         IN  txs[i].amount + SumOver(txs, I \ {i})

CreditsOf(txs, u) ==
    SumOver(txs, {i \in 1..Len(txs) : txs[i].user_id = u /\ txs[i].type = "credit"})
DebitsOf(txs, u) ==
    SumOver(txs, {i \in 1..Len(txs) : txs[i].user_id = u /\ txs[i].type = "debit"})

\* b is x (in mills) rounded to 2 decimals: a whole number of cents nearest
\* to x, the even cent when x is half way
IsRounded2(b, x) ==
    /\ b % 10 = 0
    /\ b - x \in -5..5
    /\ (b - x \in {-5, 5}) => (b \div 10) % 2 = 0

UserExists(u) == \E i \in 1..Len(user) : user[i]._id = u

\* C1: for every user, get_balance is the sum of that user's credits minus
\* the sum of that user's debits, rounded to 2 decimals; entries of other
\* users do not count.
C1_BalanceIsLedgerSum ==
    \A u \in UserIdInputs :
        IsRounded2(get_balance(wallettransaction, u),
                   CreditsOf(wallettransaction, u) - DebitsOf(wallettransaction, u))

\* a ledger with a credit of one user and a debit of another, one of them
\* with a balance that the rounding changes
C1_Witness ==
    \E u, v \in UserIdInputs :
        /\ u # v
        /\ CreditsOf(wallettransaction, u) > 0
        /\ DebitsOf(wallettransaction, v) > 0
        /\ get_balance(wallettransaction, u) # CreditsOf(wallettransaction, u)

\* what a top-up does besides the balance: refusal below $50, one credit
\* entry for the user otherwise
C2_RejectOrCredit(p) ==
    /\ p.amount < MinTopUp => resp'.code = 400 /\ UNCHANGED db
    /\ (p.amount >= MinTopUp /\ UserExists(p.user_id)) =>
          /\ resp'.code = 200
          /\ Len(wallettransaction') = Len(wallettransaction) + 1
          /\ SubSeq(wallettransaction', 1, Len(wallettransaction)) = wallettransaction
          /\ LET t == wallettransaction'[Len(wallettransaction')]
             IN  t.user_id = p.user_id /\ t.type = "credit" /\ t.amount = p.amount
          /\ resp'.balance = get_balance(wallettransaction', p.user_id)

C3_BillableAndDisposition ==
    \A i \in 1..Len(callrecord) :
        LET r == callrecord[i]
        IN  /\ r.billable = (r.duration_seconds >= 60
                             /\ r.duration_seconds >= r.billable_threshold)
            /\ r.billable => r.disposition = "completed"
            /\ (~r.billable /\ r.duration_seconds > 0) => r.disposition = "short"
            /\ (~r.billable /\ r.duration_seconds <= 0) => r.disposition = "failed"
            /\ (resp.op = "log_call" /\ resp.code = 200 /\ resp.id = r._id)
                  => resp.billable = r.billable

\* a call of 45 seconds with threshold 30 is stored, not billable and short
C3_Witness ==
    \E i \in 1..Len(callrecord) :
        /\ callrecord[i].duration_seconds = 45
        /\ callrecord[i].billable_threshold = 30
        /\ ~callrecord[i].billable
        /\ callrecord[i].disposition = "short"

\* number of notifications in the inbox of user_id
RECURSIVE CountCopies(_, _)
CountCopies(bag, D) ==
    IF D = {} THEN 0
    ELSE LET d == CHOOSE e \in D : TRUE
         IN  bag[d] + CountCopies(bag, D \ {d})

NotesTo(bag, user_id) ==
    CountCopies(bag, {d \in DOMAIN bag : d.user_id = user_id})

Inboxes == UserIdInputs \cup {AdminInbox}

\* how many times id is listed in ids
Listed(ids, id) == Cardinality({k \in 1..Len(ids) : ids[k] = id})

CampaignIndex(camps, id) == CHOOSE i \in 1..Len(camps) : camps[i]._id = id

LowBalanceNote(buyer_id) ==
    [user_id |-> buyer_id, read |-> FALSE,
     message |-> "Balance low: campaign paused. Please add funds."]

\* C4: after a billable log_call that leaves the campaign's buyer with a
\* balance below $50 the campaign is depleted and exactly one notification
\* was appended, to the buyer; with a balance of $50 or more the call
\* changes no status and appends no notification.
C4_LowBalanceDepletes ==
    [][(resp'.op = "log_call" /\ resp'.code = 200 /\ resp'.billable) =>
         LET r == callrecord'[Len(callrecord')]
             i == CampaignIndex(campaign, r.campaign_id)
             buyer_id == campaign[i].buyer_id
             bal == get_balance(wallettransaction', buyer_id)
         IN  IF bal < 50000
             THEN /\ campaign'[i].status = "depleted"
                  /\ BagCardinality(notification') = BagCardinality(notification) + 1
                  /\ NotesTo(notification', buyer_id) = NotesTo(notification, buyer_id) + 1
             ELSE /\ campaign' = campaign
                  /\ notification' = notification]_vars

\* a billable call has just left the buyer below $50: the campaign is
\* depleted and the buyer has the notification
C4_Witness ==
    /\ resp.op = "log_call" /\ resp.code = 200 /\ resp.billable
    /\ LET r == callrecord[Len(callrecord)]
           i == CampaignIndex(campaign, r.campaign_id)
       IN  /\ get_balance(wallettransaction, campaign[i].buyer_id) < 50000
           /\ campaign[i].status = "depleted"
           /\ BagIn(LowBalanceNote(campaign[i].buyer_id), notification)

\* C5: assign_routing on an existing campaign sets its status to active if
\* the buyer's balance is at least $50 and to depleted otherwise, whatever
\* the status was, and appends one notification to the buyer and one for
\* every entry of seller_ids, and no other.
C5_AssignRouting ==
    [][(resp'.op = "assign_routing" /\ resp'.code = 200) =>
         \A c \in CampaignIdInputs, r \in RoutingInputs : assign_routing(c, r) =>
            LET i == CampaignIndex(campaign, c)
                buyer_id == campaign[i].buyer_id
                bal == get_balance(wallettransaction, buyer_id)
            IN  /\ bal >= 50000 => campaign'[i].status = "active"
                /\ bal < 50000 => campaign'[i].status = "depleted"
                /\ resp'.status = campaign'[i].status
                /\ BagCardinality(notification')
                      = BagCardinality(notification) + 1 + Len(r.seller_ids)
                /\ \A u \in Inboxes :
                      NotesTo(notification', u)
                         = NotesTo(notification, u)
                             + (IF u = buyer_id THEN 1 ELSE 0)
                             + Listed(r.seller_ids, u)]_vars

\* routing has just been assigned with a seller listed, for a buyer with a
\* balance of exactly $50: the campaign is active and the seller notified
C5_Witness ==
    /\ resp.op = "assign_routing" /\ resp.code = 200 /\ resp.status = "active"
    /\ \E i \in 1..Len(campaign) :
          /\ campaign[i].status = "active"
          /\ get_balance(wallettransaction, campaign[i].buyer_id) = 50000
    /\ \E u \in UserIdInputs :
          BagIn([user_id |-> u, read |-> FALSE,
                 message |-> "You have been assigned to a campaign."], notification)

SamePair(a, b) == a.campaign_id = b.campaign_id /\ a.seller_id = b.seller_id

\* C6: there is at most one SellerAcceptance per (campaign_id, seller_id);
\* only a successful accept call changes the acceptances; after it the
\* record of its pair carries its status, the records of the other pairs
\* are as before, and exactly one notification was appended, to the buyer.
C6_AcceptUpsert ==
    [][/\ \A i, j \in 1..Len(selleracceptance') :
             SamePair(selleracceptance'[i], selleracceptance'[j]) => i = j
       /\ selleracceptance' # selleracceptance =>
             resp'.op = "accept_campaign" /\ resp'.code = 200
       /\ (resp'.op = "accept_campaign" /\ resp'.code = 200) =>
             \A c \in CampaignIdInputs, p \in AcceptInputs : accept_campaign(c, p) =>
                LET pair == [campaign_id |-> c, seller_id |-> p.seller_id]
                    buyer_id == campaign[CampaignIndex(campaign, c)].buyer_id
                IN  /\ \E i \in 1..Len(selleracceptance') :
                          /\ SamePair(selleracceptance'[i], pair)
                          /\ selleracceptance'[i].status = p.status
                    /\ \A i \in 1..Len(selleracceptance) :
                          ~SamePair(selleracceptance[i], pair) =>
                             \E j \in 1..Len(selleracceptance') :
                                selleracceptance'[j] = selleracceptance[i]
                    /\ BagCardinality(notification')
                          = BagCardinality(notification) + 1
                    /\ NotesTo(notification', buyer_id)
                          = NotesTo(notification, buyer_id) + 1]_vars

\* a seller has answered the same campaign twice: one record, carrying the
\* status of the second answer, and two notifications for the buyer
C6_Witness ==
    /\ resp.op = "accept_campaign" /\ resp.code = 200
    /\ Len(selleracceptance) = 1
    /\ selleracceptance[1].status = "rejected"
    /\ \E i \in 1..Len(campaign) :
          CopiesIn([user_id |-> campaign[i].buyer_id, read |-> FALSE,
                    message |-> "A seller responded to your campaign."],
                   notification) = 2

\* C7: there is at most one RoutingAssignment for each campaign_id value.
C7_OneRoutingPerCampaign ==
    \A i, j \in 1..Len(routingassignment) :
        routingassignment[i].campaign_id = routingassignment[j].campaign_id => i = j

IsBuyer(users, id) ==
    \E i \in 1..Len(users) : users[i]._id = id /\ users[i].role = "buyer"

\* C8: create_campaign fails when buyer_id is not the id of a user with
\* role buyer or when price_per_call is below $35 (it succeeds only for a
\* request naming a buyer and a price of at least $35, and a failure writes
\* nothing); every stored campaign has a buyer_id of a role=buyer user and a
\* price of at least $35.
C8_Stored(c) ==
    /\ IsBuyer(user, c.buyer_id)
    /\ c.price_per_call >= 35000
    /\ Len(campaign') = Len(campaign) + 1
    /\ campaign'[Len(campaign')].buyer_id = c.buyer_id
    /\ campaign'[Len(campaign')].price_per_call = c.price_per_call

C8_CampaignGuards ==
    [][/\ <<user, campaign>>' # <<user, campaign>> =>
             \A i \in 1..Len(campaign') :
                /\ IsBuyer(user', campaign'[i].buyer_id)
                /\ campaign'[i].price_per_call >= 35000
       /\ resp'.op = "create_campaign" =>
             IF resp'.code = 200
             THEN \A c \in CampaignInputs : create_campaign(c) => C8_Stored(c)
             ELSE resp'.code \in {400, 422} /\ UNCHANGED db]_vars

\* a campaign is stored and a later create_campaign naming a user who is
\* not a buyer has just been refused
C8_Witness ==
    /\ resp.op = "create_campaign" /\ resp.code = 400
    /\ resp.detail = "Invalid buyer"
    /\ \E i \in 1..Len(user) : user[i].role # "buyer"
    /\ Len(campaign) > 0

\* C9: the campaign stored by a successful create_campaign has status
\* pending_acceptance right after the creation.
C9_CreatedPending ==
    (resp.op = "create_campaign" /\ resp.code = 200) =>
        campaign[CampaignIndex(campaign, resp.id)].status = "pending_acceptance"

\* C10: no step modifies or removes a ledger entry: the ledger after a step
\* is the ledger before it followed by zero or more new entries.
C10_LedgerAppendOnly ==
    [][\/ wallettransaction' = wallettransaction
       \/ /\ Len(wallettransaction') > Len(wallettransaction)
          /\ SubSeq(wallettransaction', 1, Len(wallettransaction))
                = wallettransaction]_vars

\* the ledger holds a credit followed by a later credit of the same user
C10_Witness ==
    \E i, j \in 1..Len(wallettransaction) :
        /\ i < j
        /\ wallettransaction[i].type = "credit"
        /\ wallettransaction[j].type = "credit"
        /\ wallettransaction[i].user_id = wallettransaction[j].user_id


(* ----------------------------- C11 ------------------------------------ *)
EntriesOfCall(txs, call_id) ==
    {j \in 1..Len(txs) : txs[j].call_id = call_id}

\* the ledger entries and the call records agree: a billable call has exactly
\* one entry, a debit of its campaign's buyer at the campaign's price, and a
\* call that is not billable has none
LedgerMatchesCalls(txs, calls, camps) ==
    /\ \A k \in 1..Len(calls) :
          LET r == calls[k]
              E == EntriesOfCall(txs, r._id)
              camp == camps[CampaignIndex(camps, r.campaign_id)]
          IN  IF r.billable
              THEN /\ Cardinality(E) = 1
                   /\ \A j \in E : /\ txs[j].type = "debit"
                                   /\ txs[j].user_id = camp.buyer_id
                                   /\ txs[j].amount = camp.price_per_call
                                   /\ txs[j].campaign_id = r.campaign_id
              ELSE E = {}
    /\ Cardinality({j \in 1..Len(txs) : txs[j].type = "debit"})
         = Cardinality({k \in 1..Len(calls) : calls[k].billable})

\* C11: every billable log_call appends exactly one debit entry, of the
\* campaign's buyer, for the campaign's current price_per_call, tagged with the
\* campaign and with the id of the new call record; so after every step each
\* call record has at most one ledger entry referencing it and there are as
\* many debit entries as billable call records.
C11_OneDebitPerBillableCall ==
    [][ /\ (resp'.op = "log_call" /\ resp'.code = 200 /\ resp'.billable) =>
            LET r == callrecord'[Len(callrecord')]
                camp == campaign[CampaignIndex(campaign, r.campaign_id)]
                tx == wallettransaction'[Len(wallettransaction')]
            IN  /\ Len(wallettransaction') = Len(wallettransaction) + 1
                /\ SubSeq(wallettransaction', 1, Len(wallettransaction))
                      = wallettransaction
                /\ r._id = resp'.id
                /\ tx.type = "debit"
                /\ tx.user_id = camp.buyer_id
                /\ tx.amount = camp.price_per_call
                /\ tx.campaign_id = r.campaign_id
                /\ tx.call_id = r._id
        /\ LedgerMatchesCalls(wallettransaction', callrecord', campaign')
      ]_vars

C11_Witness ==
    /\ resp.op = "log_call" /\ resp.code = 200 /\ resp.billable
    /\ \E j \in 1..Len(wallettransaction) :
          /\ wallettransaction[j].type = "debit"
          /\ wallettransaction[j].call_id = resp.id
    /\ \E j \in 1..Len(wallettransaction) : wallettransaction[j].type = "credit"


(* ----------------------------- C12 ------------------------------------ *)
\* the request is below the floor of 60 seconds or below its own threshold
ShortCall(p) ==
    p.duration_seconds < FloorThreshold \/ p.duration_seconds < p.threshold

\* C12: a log_call that is not billable adds exactly one call record and
\* leaves the ledger, every campaign (its status included) and all
\* notifications unchanged, whatever the buyer's balance is.
C12_ShortCallFrame ==
    [][ (resp'.op = "log_call" /\ resp'.code = 200) =>
          \A p \in CallLogInputs :
             (log_call(p) /\ ShortCall(p)) =>
                /\ ~resp'.billable
                /\ Len(callrecord') = Len(callrecord) + 1
                /\ SubSeq(callrecord', 1, Len(callrecord)) = callrecord
                /\ callrecord'[Len(callrecord')]._id = resp'.id
                /\ ~callrecord'[Len(callrecord')].billable
                /\ wallettransaction' = wallettransaction
                /\ campaign' = campaign
                /\ notification' = notification
                /\ UNCHANGED <<user, selleracceptance, routingassignment>>
      ]_vars

\* a short call was logged on a campaign that is not depleted although its
\* buyer's balance is below the limit
C12_Witness ==
    /\ resp.op = "log_call" /\ resp.code = 200 /\ ~resp.billable
    /\ Len(callrecord) > 0
    /\ LET r == callrecord[Len(callrecord)]
           camp == campaign[CampaignIndex(campaign, r.campaign_id)]
       IN  /\ r._id = resp.id
           /\ r.duration_seconds > 0
           /\ camp.status # "depleted"
           /\ get_balance(wallettransaction, camp.buyer_id) < LowBalance


(* ----------------------------- C13 ------------------------------------ *)
\* some campaign that exists before the step has another status after it
StatusChanged(before, after) ==
    \E i \in 1..Len(before) :
       i <= Len(after) /\ after[i].status # before[i].status

\* C13: a status change is never silent: every step of an operation in which
\* the status of some campaign differs before and after also adds at least
\* one notification (and takes none away).
C13_StatusChangeNotifies ==
    [][ StatusChanged(campaign, campaign') =>
          /\ BagCardinality(notification') > BagCardinality(notification)
          /\ notification \sqsubseteq notification'
          /\ resp'.op \in {"set_transfer_number", "assign_routing", "log_call"}
      ]_vars

\* set_transfer_number has moved a campaign to awaiting_admin and the admin
\* inbox holds the notification
C13_Witness ==
    /\ resp.op = "set_transfer_number" /\ resp.code = 200
    /\ \E i \in 1..Len(campaign) :
          /\ campaign[i].status = "awaiting_admin"
          /\ campaign[i].transfer_number # NULL
    /\ NotesTo(notification, AdminInbox) >= 1


(* ----------------------------- C14 ------------------------------------ *)
HasId(coll, id) == \E i \in 1..Len(coll) : coll[i]._id = id

HasRole(users, id, role) ==
    \E i \in 1..Len(users) : users[i]._id = id /\ users[i].role = role

\* the guards of the operation that answered held in the state before the step
GuardsHeld(op) ==
    CASE op = "wallet_topup" ->
           \A p \in TopUpInputs :
              wallet_topup(p) => p.amount >= MinTopUp /\ HasId(user, p.user_id)
      [] op = "create_campaign" ->
           \A c \in CampaignInputs :
              create_campaign(c) => HasRole(user, c.buyer_id, "buyer")
      [] op = "accept_campaign" ->
           \A c \in CampaignIdInputs, p \in AcceptInputs :
              accept_campaign(c, p) =>
                 HasId(campaign, c) /\ HasRole(user, p.seller_id, "seller")
      [] op = "set_transfer_number" ->
           \A c \in CampaignIdInputs, p \in TransferInputs :
              set_transfer_number(c, p) => HasId(campaign, c)
      [] op = "assign_routing" ->
           \A c \in CampaignIdInputs, r \in RoutingInputs :
              assign_routing(c, r) => HasId(campaign, c)
      [] op = "log_call" ->
           \A p \in CallLogInputs :
              log_call(p) => HasId(campaign, p.campaign_id)
      [] OTHER -> TRUE

\* C14: an operation whose guard fails (unknown campaign in accept_campaign,
\* set_transfer_number, assign_routing and log_call; unknown user or a user
\* who is not a seller in accept_campaign; invalid buyer in create_campaign;
\* amount below 50 or unknown user in wallet_topup) answers with an error and
\* every collection of the store is exactly as before the step.
C14_ErrorsWriteNothing ==
    [][ IF resp'.code = 200
        THEN GuardsHeld(resp'.op)
        ELSE resp'.code \in {400, 404, 422} /\ UNCHANGED db
      ]_vars

\* accept_campaign was refused for a user who is not a seller while the
\* store already holds users and a campaign
C14_Witness ==
    /\ resp.op = "accept_campaign" /\ resp.code = 400
    /\ resp.detail = "Invalid seller"
    /\ Len(campaign) > 0 /\ Len(user) > 0
    /\ selleracceptance = <<>>


(* ----------------------------- C16 ------------------------------------ *)
\* C16: call billing moves a campaign to depleted only from active: a log_call
\* step changes the status of a campaign only if that status was active before
\* the step (and then to depleted); a campaign in any other status keeps it.
C16_DepletesOnlyFromActive ==
    [][ resp'.op = "log_call" =>
          \A i \in 1..Len(campaign) :
             campaign'[i].status # campaign[i].status =>
                campaign[i].status = "active" /\ campaign'[i].status = "depleted"
      ]_vars

(* ----------------------------- C17 ------------------------------------ *)
Unused == {"draft", "archived"}

\* C17: no operation moves a campaign into or out of draft or archived: in
\* every step a campaign that is draft or archived before has the same status
\* after, and a campaign that is neither before is neither after.
C17_DraftArchivedUntouched ==
    [][ \A i \in 1..Len(campaign) :
          /\ campaign[i].status \in Unused =>
                campaign'[i].status = campaign[i].status
          /\ campaign[i].status \notin Unused =>
                campaign'[i].status \notin Unused
      ]_vars

(* ----------------------------- C19 ------------------------------------ *)
\* C19: in every reachable state every campaign whose status is active belongs
\* to a buyer whose balance is at least 50.
C19_ActiveIsFunded ==
    \A i \in 1..Len(campaign) :
       campaign[i].status = "active" =>
          get_balance(wallettransaction, campaign[i].buyer_id) >= LowBalance

(* ----------------------------- C20 ------------------------------------ *)
\* C20: in every reachable state the balance of every user is at least 0,
\* whatever the status of the campaigns calls were logged against.
C20_BalanceNotNegative ==
    \A i \in 1..Len(user) :
       get_balance(wallettransaction, user[i]._id) >= 0


(* ----------------------------- C18 ------------------------------------ *)
\* at most one document of the collection differs, or one was added
OneDocumentWritten(before, after) ==
    \/ /\ Len(after) = Len(before) + 1
       /\ SubSeq(after, 1, Len(before)) = before
    \/ /\ Len(after) = Len(before)
       /\ Cardinality({k \in 1..Len(before) : after[k] # before[k]}) <= 1

\* C18: accept_campaign never changes any campaign, neither its status nor
\* another field: all it writes is one SellerAcceptance document (inserted or
\* updated) and one notification, to the campaign's buyer.
C18_AcceptFrame ==
    [][ resp'.op = "accept_campaign" =>
          /\ campaign' = campaign
          /\ UNCHANGED <<user, wallettransaction, routingassignment, callrecord>>
          /\ resp'.code = 200 =>
                /\ OneDocumentWritten(selleracceptance, selleracceptance')
                /\ BagCardinality(notification') = BagCardinality(notification) + 1
                /\ notification \sqsubseteq notification'
                /\ \A c \in CampaignIdInputs, p \in AcceptInputs :
                      accept_campaign(c, p) =>
                         LET buyer_id == campaign[CampaignIndex(campaign, c)].buyer_id
                         IN  NotesTo(notification', buyer_id)
                               = NotesTo(notification, buyer_id) + 1
      ]_vars

\* a seller has accepted a campaign that is still pending_acceptance
C18_Witness ==
    /\ resp.op = "accept_campaign" /\ resp.code = 200
    /\ \E i \in 1..Len(campaign), k \in 1..Len(selleracceptance) :
          /\ campaign[i].status = "pending_acceptance"
          /\ selleracceptance[k].campaign_id = campaign[i]._id
          /\ selleracceptance[k].status = "accepted"
          /\ NotesTo(notification, campaign[i].buyer_id) >= 1


(* ----------------------------- C15 ------------------------------------ *)
\* no log_call is in flight and at least one has been served
AllCompleted ==
    /\ \A p \in Procs : inflight[p].pc \in {"idle", "done"}
    /\ \E p \in Procs : inflight[p].pc = "done"

\* C15: no lost update under concurrent billing: when the log_call requests
\* served together, one store operation at a time, have all completed, a
\* campaign for which at least one of them was billable and whose buyer's
\* balance is below 50 is depleted.
C15_NoLostDepletion ==
    AllCompleted =>
       \A i \in 1..Len(campaign) :
          ( /\ \E p \in Procs : /\ inflight[p].code = 200
                                /\ inflight[p].billable
                                /\ inflight[p].camp_id = campaign[i]._id
            /\ get_balance(wallettransaction, campaign[i].buyer_id) < LowBalance )
          => campaign[i].status = "depleted"

\* two billable calls were served together on a campaign whose buyer had
\* funds for one: the balance is below 50 and the campaign is depleted
C15_Witness ==
    /\ \A p \in Procs : /\ inflight[p].pc = "done"
                        /\ inflight[p].code = 200
                        /\ inflight[p].billable
    /\ \E p \in Procs : inflight[p].bal >= LowBalance
    /\ \E i \in 1..Len(campaign) :
          /\ campaign[i].status = "depleted"
          /\ get_balance(wallettransaction, campaign[i].buyer_id) < LowBalance
          /\ get_balance(wallettransaction, campaign[i].buyer_id) >= 0

====
